---- MODULE Spec2Model ----
(***************************************************************************)
(* CodeVox runner: SQSRunner (runner/src/main.py) and JobProcessor /       *)
(* GithubIntegrator (runner/src/job_processor.py).                         *)
(*                                                                         *)
(* One worker runs the loop poll -> process -> callback -> delete.  The    *)
(* queue is either the in-process mock list or a real queue with a         *)
(* visibility timeout.  The generation backend, the git remote, the        *)
(* hosting API and the callback endpoint are the environment: each call    *)
(* to them draws its outcome with \E.                                      *)
(***************************************************************************)
EXTENDS Integers, Sequences, FiniteSets, TLC

(***************************************************************************)
(* Bounds of the model.                                                    *)
(***************************************************************************)
\* jobs that add_mock_job may append in one run
MaxMockJobs == 3
\* messages the upstream submitter sends to the real queue
MaxMsgs == 1
\* receives of one message that get a receipt handle of their own; later
\* receives share the last handle (the count saturates, receiving goes on)
MaxReceive == 2

(***************************************************************************)
(* Python values.  A dict is a function from its keys; a missing key is a  *)
(* key outside its DOMAIN.  Strings that the code slices or searches are   *)
(* sequences of one-character strings.                                     *)
(***************************************************************************)
None == [t |-> "none"]
PyStr(s) == [t |-> "str", v |-> s]
PyInt(n) == [t |-> "int", v |-> n]
IsStr(x) == x.t = "str"

\* dict.get(key, default)
Get(d, k, default) == IF k \in DOMAIN d THEN d[k] ELSE default

Upper == <<"A","B","C","D","E","F","G","H","I","J","K","L","M",
           "N","O","P","Q","R","S","T","U","V","W","X","Y","Z">>
Lower == <<"a","b","c","d","e","f","g","h","i","j","k","l","m",
           "n","o","p","q","r","s","t","u","v","w","x","y","z">>

\* str.lower(), character by character
LowerChar(c) ==
    IF \E i \in 1..Len(Upper) : Upper[i] = c
    THEN Lower[CHOOSE i \in 1..Len(Upper) : Upper[i] = c]
    ELSE c
KeepCase(s) == s
ToLower(s) == [i \in 1..Len(s) |-> LowerChar(s[i])]

\* s.startswith(p)
StartsWith(s, p) == Len(s) >= Len(p) /\ SubSeq(s, 1, Len(p)) = p

\* s.replace(old, ""): every occurrence of old, left to right, is removed
RECURSIVE RemoveFrom(_, _, _)
RemoveFrom(s, old, i) ==
    IF i > Len(s) THEN <<>>
    ELSE IF i + Len(old) - 1 <= Len(s) /\ SubSeq(s, i, i + Len(old) - 1) = old
         THEN RemoveFrom(s, old, i + Len(old))
         ELSE <<s[i]>> \o RemoveFrom(s, old, i + 1)

Remove(s, old) == IF old = <<>> THEN s ELSE RemoveFrom(s, old, 1)

\* s.split(c)
RECURSIVE Split(_, _)
Split(s, c) ==
    IF \A i \in 1..Len(s) : s[i] # c THEN <<s>>
    ELSE LET i == CHOOSE k \in 1..Len(s) :
                      s[k] = c /\ \A j \in 1..(k - 1) : s[j] # c
         IN  <<SubSeq(s, 1, i - 1)>> \o Split(SubSeq(s, i + 1, Len(s)), c)

\* sub in s
Contains(s, sub) ==
    \E i \in 0..(Len(s) - Len(sub)) : SubSeq(s, i + 1, i + Len(sub)) = sub

\* s[:n]
Take(s, n) == SubSeq(s, 1, IF Len(s) < n THEN Len(s) ELSE n)

(***************************************************************************)
(* Inputs: message bodies and job payloads.                                *)
(***************************************************************************)
T1 == <<"t","1">>
T2 == <<"t","2">>
TextHelp  == <<"A","d","d"," ","-","-","H","e","l","p">>
TextStdin == <<"r","e","a","d"," ","s","t","d","i","n">>
TextOther == <<"l","o","g","s">>
RepoUrl == <<"g","i","t","@","g","i","t","h","u","b",".","c","o","m",":",
             "a","c","m","e","/","w","i","d","g","e","t","s",".","g","i","t">>

\* payloads that follow the Job schema
JobHelp  == [job_id |-> PyStr(T1), task_text |-> PyStr(TextHelp), repo |-> PyStr(RepoUrl)]
JobOther == [job_id |-> PyStr(T2), task_text |-> PyStr(TextOther), repo |-> PyStr(RepoUrl)]
JobStdin == [job_id |-> PyStr(T1), task_text |-> PyStr(TextStdin), repo |-> PyStr(RepoUrl)]
SchemaJobs == {JobHelp, JobOther, JobStdin}

\* dicts that json.loads accepts and that do not follow the schema:
\* no job_id; no task_text; "task_text": null; "job_id": 7
JobNoId     == [task_text |-> PyStr(TextOther), repo |-> PyStr(RepoUrl)]
JobNoText   == [job_id |-> PyStr(T2), repo |-> PyStr(RepoUrl)]
JobNullText == [job_id |-> PyStr(T1), task_text |-> None, repo |-> PyStr(RepoUrl)]
JobIntId    == [job_id |-> PyInt(7), task_text |-> PyStr(TextOther), repo |-> PyStr(RepoUrl)]
OffSchemaJobs == {JobNoId, JobNoText, JobNullText, JobIntId}

\* a body json.loads rejects
Garbled == [t |-> "garbled"]
\* the bodies of the messages sent to the real queue
Bodies == {JobHelp, JobOther, JobNoId, JobNullText, Garbled}
\* what add_mock_job is called with (line 39 reads job_data['job_id'])
MockJobs == SchemaJobs \cup OffSchemaJobs

\* task texts for the keyword classifier of the Mock Path: both keywords in
\* either order and in upper case, a keyword inside a longer word, none
TextBoth       == <<"S","T","D","I","N"," ","h","e","l","p">>
TextBothHelp1  == <<"H","E","L","P"," ","s","t","d","i","n">>
TextStdinUpper == <<"-","-","S","t","d","I","n">>
TextUnhelpful  == <<"u","n","h","e","l","p","f","u","l">>
TextHel        == <<"h","e","l"," ","s","t","d"," ","i","n">>
TextEmpty      == <<>>
MockPathTexts == {TextHelp, TextStdin, TextOther, TextBoth, TextBothHelp1,
                  TextStdinUpper, TextUnhelpful, TextHel, TextEmpty}
\* the jobs handed to the Mock Path
MockPathJobs ==
    {[job_id |-> PyStr(id), task_text |-> PyStr(t), repo |-> PyStr(RepoUrl)] :
        id \in {T1, T2}, t \in MockPathTexts}
    \cup {JobNoText, JobNullText, JobIntId}

\* repository URLs: the two forms the spec names, names that contain ".git",
\* a remainder with two '/', with none, and another host
UrlSsh ==
    <<"g","i","t","@","g","i","t","h","u","b",".","c","o","m",":","a",
      "c","m","e","/","w","i","d","g","e","t","s",".","g","i","t">>
UrlHttps ==
    <<"h","t","t","p","s",":","/","/","g","i","t","h","u","b",".","c",
      "o","m","/","a","c","m","e","/","w","i","d","g","e","t","s",".",
      "g","i","t">>
UrlPages ==
    <<"h","t","t","p","s",":","/","/","g","i","t","h","u","b",".","c",
      "o","m","/","a","c","m","e","/","a","c","m","e",".","g","i","t",
      "h","u","b",".","i","o",".","g","i","t">>
UrlGitops ==
    <<"g","i","t","@","g","i","t","h","u","b",".","c","o","m",":","a",
      "c","m","e","/","m","y",".","g","i","t","o","p","s",".","g","i",
      "t">>
UrlDeep ==
    <<"h","t","t","p","s",":","/","/","g","i","t","h","u","b",".","c",
      "o","m","/","a","c","m","e","/","w","i","d","g","e","t","s","/",
      "t","r","e","e",".","g","i","t">>
UrlNoSlash ==
    <<"g","i","t","@","g","i","t","h","u","b",".","c","o","m",":","w",
      "i","d","g","e","t","s",".","g","i","t">>
UrlGitlab ==
    <<"h","t","t","p","s",":","/","/","g","i","t","l","a","b",".","c",
      "o","m","/","a","c","m","e","/","w","i","d","g","e","t","s",".",
      "g","i","t">>
RepoUrls == {UrlSsh, UrlHttps, UrlPages, UrlGitops, UrlDeep, UrlNoSlash, UrlGitlab}
\* owners and names in these URLs
Acme == <<"a","c","m","e">>
Widgets == <<"w","i","d","g","e","t","s">>
AcmeGithubIo == <<"a","c","m","e",".","g","i","t","h","u","b",".","i","o">>
MyGitops == <<"m","y",".","g","i","t","o","p","s">>
\* the jobs handed to the Generation Path with git integration enabled
GitPathJobs ==
    {[job_id |-> PyStr(id), task_text |-> PyStr(TextOther), repo |-> PyStr(u)] :
        id \in {T1, T2}, u \in RepoUrls}

\* what the callback endpoint may answer: a status code, or no answer
StatusCodes == {200, 201, 204, 404, 500}
TransportFailures == {"Timeout", "ConnectionError"}
Responses == [kind : {"status"}, code : StatusCodes]
             \cup [kind : {"exception"}, exc : TransportFailures]


(***************************************************************************)
(* JobProcessor._mock_process_job.  raised is TRUE when the call ends in   *)
(* an exception; result is then meaningless.                               *)
(***************************************************************************)
NoResult == [status |-> "none"]
Raise == [raised |-> TRUE, result |-> NoResult]
ReturnErrorStatus(r) ==
    [raised |-> FALSE, result |-> [r EXCEPT !.status = "error"]]
Return(r) == [raised |-> FALSE, result |-> r]

Help == <<"h","e","l","p">>
Stdin == <<"s","t","d","i","n">>

MockProcessJob(job_data) ==
    LET task_text == Get(job_data, "task_text", PyStr(<<>>))
    IN  IF ~IsStr(task_text) THEN Raise               \* None.lower()
        ELSE IF Contains(ToLower(task_text.v), Help) THEN
            IF "job_id" \notin DOMAIN job_data THEN Raise
            ELSE Return([job_id |-> job_data.job_id,
                         status |-> "auto_merged",
                         commit_sha |-> "abc-uuid",
                         loc_delta |-> 15,
                         files_touched |-> {"cli.py", "README.md"},
                         tests_passed |-> TRUE,
                         lint_passed |-> TRUE,
                         tok_in |-> 1200,
                         tok_out |-> 400,
                         duration_ms |-> 2000,
                         notes |-> [msg |-> "Added --help flag with documentation"]])
        ELSE IF Contains(ToLower(task_text.v), Stdin) THEN
            IF "job_id" \notin DOMAIN job_data THEN Raise
            ELSE Return([job_id |-> job_data.job_id,
                         status |-> "auto_merged",
                         commit_sha |-> "def-uuid",
                         loc_delta |-> 25,
                         files_touched |-> {"cli.py", "tests/test_cli.py"},
                         tests_passed |-> TRUE,
                         lint_passed |-> TRUE,
                         tok_in |-> 1500,
                         tok_out |-> 600,
                         duration_ms |-> 2500,
                         notes |-> [msg |-> "Added --stdin flag with input handling"]])
        ELSE
            \* job_data['job_id'][:8] needs a key that holds a string
            IF "job_id" \notin DOMAIN job_data THEN Raise
            ELSE IF ~IsStr(job_data.job_id) THEN Raise
            ELSE Return([job_id |-> job_data.job_id,
                         status |-> "pr_opened",
                         pr_url |-> PyStr(<<"https://github.com/user/repo/pull/">>
                                          \o Take(job_data.job_id.v, 8)),
                         loc_delta |-> 150,
                         files_touched |-> {"cli.py", "utils.py", "tests/test_cli.py"},
                         tests_passed |-> TRUE,
                         lint_passed |-> TRUE,
                         tok_in |-> 2000,
                         tok_out |-> 800,
                         duration_ms |-> 3500,
                         notes |-> [msg |-> "Added verbose logging - needs review due to size"]])

(***************************************************************************)
(* GithubIntegrator.process_with_git.  inj is the step at which the        *)
(* environment (remote, disk, hosting API) makes the run fail, or "none".  *)
(* dirs is the set of workspace directories on disk.                       *)
(***************************************************************************)
GitSteps == <<"clone", "config", "branch", "write", "commit", "push", "open_pr">>
GitFailures == {"none", "mkdtemp"} \cup {GitSteps[i] : i \in 1..Len(GitSteps)}

\* the steps the try block goes through when none fails: step 6 of the
\* source (create pull request) is inside `if self.github`
PlannedSteps(hosting) ==
    IF hosting THEN GitSteps ELSE SubSeq(GitSteps, 1, Len(GitSteps) - 1)

\* GithubIntegrator.parse_repo_url
SshPrefix   == <<"g","i","t","@","g","i","t","h","u","b",".","c","o","m",":">>
HttpsPrefix == <<"h","t","t","p","s",":","/","/","g","i","t","h","u","b",".",
                 "c","o","m","/">>
DotGit == <<".","g","i","t">>

\* owner, repo_name = repo_part.split("/"), ValueError unless two parts
SplitOwnerName(repo_part) ==
    LET parts == Split(repo_part, "/")
    IN  IF Len(parts) = 2
        THEN [raised |-> FALSE, owner |-> parts[1], repo_name |-> parts[2]]
        ELSE [raised |-> TRUE]

ParseRepoUrl(repo_url) ==
    IF StartsWith(repo_url, SshPrefix)
    THEN SplitOwnerName(Remove(Remove(repo_url, SshPrefix), DotGit))
    ELSE IF StartsWith(repo_url, HttpsPrefix)
    THEN SplitOwnerName(Remove(Remove(repo_url, HttpsPrefix), DotGit))
    ELSE [raised |-> TRUE]

\* parse_repo_url on the URLs of the jobs, computed once
ParsedRepoUrls == [u \in RepoUrls \cup {RepoUrl} |-> ParseRepoUrl(u)]
ParsedRepoUrl(u) == ParsedRepoUrls[u]

\* whether a step raises: the environment fails it, or the code itself does
\* (repo_url.startswith on a non-string at clone, task_text[:50] on a
\* non-string at commit, parse_repo_url at the open-PR step)
StepRaises(job_data, step, inj) ==
    \/ inj = step
    \/ step = "clone"  /\ ~IsStr(Get(job_data, "repo", None))
    \/ step = "commit" /\ ~IsStr(Get(job_data, "task_text", None))
    \/ /\ step = "open_pr"
       /\ IsStr(Get(job_data, "repo", None))
       /\ ParsedRepoUrl(job_data.repo.v).raised

\* the repository the open-PR step asks the hosting API for
\* (self.github.get_repo(f"{owner}/{repo_name}")), if the step got there
PrRequest(job_data, trace) ==
    IF /\ trace # <<>>
       /\ trace[Len(trace)].step = "open_pr"
       /\ IsStr(Get(job_data, "repo", None))
       /\ ~ParsedRepoUrl(job_data.repo.v).raised
    THEN [f \in {"owner", "repo_name"} |-> ParsedRepoUrl(job_data.repo.v)[f]]
    ELSE None

StepsRunAll(job_data, hosting, inj) == PlannedSteps(hosting)

\* the steps attempted, the failing one included
StepsRun(job_data, hosting, inj) ==
    LET plan == PlannedSteps(hosting)
        bad  == {i \in 1..Len(plan) : StepRaises(job_data, plan[i], inj)}
    IN  IF bad = {} THEN plan
        ELSE SubSeq(plan, 1, CHOOSE i \in bad : \A k \in bad : i <= k)

GitFailed(job_data, hosting, inj) ==
    LET run == StepsRun(job_data, hosting, inj)
    IN  run # <<>> /\ StepRaises(job_data, run[Len(run)], inj)

FinallyOnlyOnSuccess(dirs, workspace, failed) ==
    IF failed THEN dirs ELSE dirs \ {workspace}

\* the `finally` block: shutil.rmtree(workspace, ignore_errors=True)
Finally(dirs, workspace, failed) == dirs \ {workspace}

\* the workspace directory's name
Workspace(job_data) == <<"codevox-runner", Get(job_data, "job_id", None)>>

ProcessWithGit(job_data, generated_code, hosting, inj, dirs) ==
    LET job_id    == Get(job_data, "job_id", None)
        task_text == Get(job_data, "task_text", None)
        workspace == Workspace(job_data)
        run       == StepsRun(job_data, hosting, inj)
        failed    == GitFailed(job_data, hosting, inj)
    IN  IF inj = "mkdtemp"
        THEN \* tempfile.mkdtemp is outside the try block
             [raised |-> TRUE, result |-> NoResult, trace |-> <<>>, dirs |-> dirs]
        ELSE [raised |-> FALSE,
              result |->
                IF failed
                THEN [status |-> "git_error",
                      notes  |-> [msg |-> "Git operation failed",
                                  cause |-> run[Len(run)]]]
                ELSE [status |-> "pr_opened",
                      commit_sha |-> "head-commit",
                      pr_url |-> IF hosting THEN PyStr(<<"pr.html_url">>) ELSE None,
                      branch |-> <<"codevox/feature-", job_id>>,
                      files_touched |-> {"codevox_generated.py"},
                      loc_delta |-> generated_code.lines,
                      notes |-> [msg |-> "Successfully created PR from voice command",
                                 task |-> Take(task_text.v, 100)]],
              trace |-> [i \in 1..Len(run) |->
                           [step |-> run[i],
                            ok   |-> ~StepRaises(job_data, run[i], inj)]],
              dirs  |-> Finally(dirs \cup {workspace}, workspace, failed)]


(***************************************************************************)
(* JobProcessor._claude_process_job.  backend is what the generation       *)
(* backend does with the one request of the call: it answers, or the       *)
(* request fails.  backend_calls of the outcome lists what the backend did *)
(* with each request made.                                                 *)
(***************************************************************************)
\* an answer of the backend: the text (its length in characters and in
\* newline-delimited segments) and the token usage
BackendAnswer == [chars |-> 40, lines |-> 3, input_tokens |-> 120, output_tokens |-> 45]
BackendOutcomes == {"answer", "APIError"}

\* the status of the `except Exception` handler's Result
ClaudeErrorStatus == "claude_error"

ClaudeExceptReraise(job_data, cause, calls, trace, dirs) ==
    [raised |-> TRUE, result |-> NoResult,
     backend_calls |-> calls, trace |-> trace, dirs |-> dirs]

\* the `except Exception` handler: job_data["job_id"] is read again
ClaudeExcept(job_data, cause, calls, trace, dirs) ==
    IF "job_id" \notin DOMAIN job_data
    THEN [raised |-> TRUE, result |-> NoResult,
          backend_calls |-> calls, trace |-> trace, dirs |-> dirs]
    ELSE [raised |-> FALSE,
          result |-> [job_id |-> job_data.job_id,
                      status |-> ClaudeErrorStatus,
                      notes  |-> [msg |-> "Claude API failed", cause |-> cause]],
          backend_calls |-> calls, trace |-> trace, dirs |-> dirs]

MergeGitResultNoJobId(git_result, job_data, answer) ==
    [k \in DOMAIN git_result
          \cup {"tok_in", "tok_out", "test_passed", "lint_passed"} |->
        CASE k = "tok_in"      -> answer.input_tokens
          [] k = "tok_out"     -> answer.output_tokens
          [] k = "test_passed" -> TRUE
          [] k = "lint_passed" -> TRUE
          [] OTHER             -> git_result[k]]

\* git_result.update({...}): the keys of the update win
MergeGitResult(git_result, job_data, answer) ==
    [k \in DOMAIN git_result
          \cup {"job_id", "tok_in", "tok_out", "test_passed", "lint_passed"} |->
        CASE k = "job_id"      -> job_data.job_id
          [] k = "tok_in"      -> answer.input_tokens
          [] k = "tok_out"     -> answer.output_tokens
          [] k = "test_passed" -> TRUE
          [] k = "lint_passed" -> TRUE
          [] OTHER             -> git_result[k]]

ClaudeProcessJob(job_data, backend, git_enabled, hosting, inj, dirs) ==
    LET task_text == Get(job_data, "task_text", PyStr(<<>>))
    IN  IF backend # "answer"
        THEN ClaudeExcept(job_data, backend, <<backend>>, <<>>, dirs)
        ELSE IF ~IsStr(task_text)
        THEN \* _analyze_code_complexity: task_text.lower()
             ClaudeExcept(job_data, "AttributeError", <<backend>>, <<>>, dirs)
        ELSE IF git_enabled
        THEN LET git == ProcessWithGit(job_data, BackendAnswer, hosting, inj, dirs)
             IN  IF git.raised
                 THEN ClaudeExcept(job_data, "mkdtemp", <<backend>>, git.trace, git.dirs)
                 ELSE IF "job_id" \notin DOMAIN job_data
                 THEN ClaudeExcept(job_data, "KeyError", <<backend>>, git.trace, git.dirs)
                 ELSE [raised |-> FALSE,
                       result |-> MergeGitResult(git.result, job_data, BackendAnswer),
                       backend_calls |-> <<backend>>, trace |-> git.trace, dirs |-> git.dirs]
        ELSE IF "job_id" \notin DOMAIN job_data
        THEN ClaudeExcept(job_data, "KeyError", <<backend>>, <<>>, dirs)
        ELSE [raised |-> FALSE,
              result |-> [job_id |-> job_data.job_id,
                          status |-> "code_generated",
                          notes  |-> [msg |-> "Generated code (GitHub disabled)",
                                      chars |-> BackendAnswer.chars],
                          loc_delta |-> BackendAnswer.lines,
                          files_touched |-> {"generated_code.py"},
                          tok_in  |-> BackendAnswer.input_tokens,
                          tok_out |-> BackendAnswer.output_tokens],
              backend_calls |-> <<backend>>, trace |-> <<>>, dirs |-> dirs]

(***************************************************************************)
(* JobProcessor.process_job: dispatch on mock_mode, then stamp the         *)
(* measured duration into the Result.                                      *)
(***************************************************************************)
\* the measured wall-clock time of a call, in ms
Durations == {7}

WithDuration(r, d) ==
    [k \in DOMAIN r \cup {"duration_ms"} |-> IF k = "duration_ms" THEN d ELSE r[k]]

ProcessJob(job_data, proc_mock, backend, git_enabled, hosting, inj, d, dirs) ==
    LET out == IF proc_mock
               THEN LET m == MockProcessJob(job_data)
                    IN  [raised |-> m.raised, result |-> m.result,
                         backend_calls |-> <<>>, trace |-> <<>>, dirs |-> dirs]
               ELSE ClaudeProcessJob(job_data, backend, git_enabled, hosting, inj, dirs)
    IN  IF out.raised THEN out
        ELSE [out EXCEPT !.result = WithDuration(out.result, d)]

(***************************************************************************)
(* JobProcessor.send_callback: the boolean it returns for what             *)
(* requests.post did.                                                      *)
(***************************************************************************)
SendCallbackTrueOnException(resp) ==
    IF resp.kind = "exception" THEN TRUE
    ELSE resp.code = 200

SendCallback(resp) ==
    IF resp.kind = "exception" THEN FALSE
    ELSE resp.code = 200


(***************************************************************************)
(* State.                                                                  *)
(***************************************************************************)
VARIABLES
    \* configuration, read once in the constructors
    mock_mode,          \* SQSRunner.mock_mode: the queue is the in-process list
    proc_mock_mode,     \* JobProcessor.mock_mode: no generation backend
    github_enabled,     \* GithubIntegrator.github_enabled
    github,             \* GithubIntegrator.github is a client (not None)
    \* SQSRunner
    running,            \* SQSRunner.running
    pc,                 \* where the loop of run() is
    mock_jobs,          \* SQSRunner.mock_jobs
    job_data,           \* run(): the polled job
    receipt,            \* run(): the polled receipt handle
    result,             \* run(): what process_job returned
    callback_success,   \* run(): what send_callback returned
    \* the environment
    queue,              \* the real queue: its messages, in the order sent
    response,           \* what the callback endpoint did with the last POST
    workspace_dirs,     \* workspace directories on disk
    \* what happened (read by the properties only)
    added,              \* the jobs add_mock_job appended, in order
    processed,          \* mock-queue mode: the jobs process_job was called on
    reported,           \* mock-queue mode: the jobs send_callback was called for
    backend_calls,      \* what the backend did with each request made for
                        \* the polled job
    git_trace,          \* the git steps attempted for the polled job, and
                        \* whether each went through
    exc,                \* the exception that reached the loop guard, if any
    poll_exc,           \* the exception poll_sqs caught in the last poll, if any
    pr_repo,            \* the repository asked of the hosting API for the
                        \* polled job, if the open-PR step got there
    delete_arg,         \* the handle delete_message was invoked with, if it was
    cb_failed,          \* handles of deliveries whose callback returned False
    \* a second worker instance on the same real queue
    peer_job_data,      \* its run(): the polled job
    peer_receipt        \* its run(): the polled receipt handle

config == <<mock_mode, proc_mock_mode, github_enabled, github>>
locals == <<job_data, receipt, result, callback_success, response,
            backend_calls, git_trace, exc, poll_exc, pr_repo, delete_arg>>
history == <<added, processed, reported, cb_failed>>
peer == <<peer_job_data, peer_receipt>>
vars == <<mock_mode, proc_mock_mode, github_enabled, github, running, pc,
          mock_jobs, job_data, receipt, result, callback_success, queue,
          response, workspace_dirs, added, processed, reported,
          backend_calls, git_trace, exc, poll_exc, pr_repo, delete_arg,
          cb_failed, peer_job_data, peer_receipt>>

\* a receipt handle: the message and which receive of it this is
Handle(m, n) == [t |-> "handle", m |-> m, n |-> n]
\* handles that belong to one delivery only: the receive count saturates, and
\* the handle numbered MaxReceive stands for that receive and all later ones
OwnHandle(h) == h.n < MaxReceive

Min(a, b) == IF a < b THEN a ELSE b

\* SQSRunner.__init__, JobProcessor.__init__, GithubIntegrator.__init__
Init ==
    /\ mock_mode \in BOOLEAN
    /\ proc_mock_mode \in BOOLEAN
    /\ github_enabled \in BOOLEAN
    /\ github \in BOOLEAN
    /\ github => github_enabled     \* a client only when enabled, with a token
    /\ running = FALSE
    /\ pc = "init"
    /\ mock_jobs = <<>>
    /\ job_data = None
    /\ receipt = None
    /\ result = NoResult
    /\ callback_success = FALSE
    /\ queue = <<>>
    /\ response = None
    /\ workspace_dirs = {}
    /\ added = <<>>
    /\ processed = <<>>
    /\ reported = <<>>
    /\ backend_calls = <<>>
    /\ git_trace = <<>>
    /\ exc = "none"
    /\ poll_exc = "none"
    /\ pr_repo = None
    /\ delete_arg = None
    /\ cb_failed = {}
    /\ peer_job_data = None
    /\ peer_receipt = None

\* SQSRunner.add_mock_job
add_mock_job(j) ==
    /\ mock_mode
    /\ pc # "stopped"
    /\ Len(added) < MaxMockJobs
    /\ "job_id" \in DOMAIN j            \* line 39 raises KeyError otherwise
    /\ mock_jobs' = Append(mock_jobs, j)
    /\ added' = Append(added, j)
    /\ UNCHANGED <<config, peer, running, pc, locals, queue, workspace_dirs,
                   processed, reported, cb_failed>>

\* the upstream submitter sends a message to the real queue
SendMessage(b) ==
    /\ ~mock_mode
    /\ Len(queue) < MaxMsgs
    /\ queue' = Append(queue, [body |-> b, st |-> "visible", rc |-> 0])
    /\ UNCHANGED <<config, peer, running, pc, mock_jobs, locals, workspace_dirs, history>>

\* the queue: the visibility timeout of a received message runs out
VisibilityTimeout(m) ==
    /\ queue[m].st = "inflight"
    /\ queue' = [queue EXCEPT ![m].st = "visible"]
    /\ UNCHANGED <<config, peer, running, pc, mock_jobs, locals, workspace_dirs, history>>

\* run(), up to the loop: self.running = True
Run ==
    /\ pc = "init"
    /\ running' = TRUE
    /\ pc' = "polling"
    /\ UNCHANGED <<config, peer, mock_jobs, locals, queue, workspace_dirs, history>>

\* the locals of run() that the iteration starting at line 79 no longer reads
ClearIteration ==
    /\ result' = NoResult
    /\ callback_success' = FALSE
    /\ response' = None
    /\ backend_calls' = <<>>
    /\ git_trace' = <<>>
    /\ pr_repo' = None
    /\ exc' = "none"
    /\ delete_arg' = None

PeekFirst(jobs) == [job |-> Head(jobs), rest |-> jobs]

PopLast(jobs) ==
    [job |-> jobs[Len(jobs)], rest |-> SubSeq(jobs, 1, Len(jobs) - 1)]

\* self.mock_jobs.pop(0): the job popped and the list left
PopFirst(jobs) == [job |-> Head(jobs), rest |-> Tail(jobs)]

\* poll_sqs in mock mode, and the `if polled` of run()
PollMock ==
    /\ pc = "polling" /\ running /\ mock_mode
    /\ ClearIteration
    /\ IF mock_jobs # <<>>
       THEN /\ job_data' = PopFirst(mock_jobs).job
            /\ mock_jobs' = PopFirst(mock_jobs).rest
            /\ pc' = "processing"
       ELSE /\ job_data' = None
            /\ mock_jobs' = mock_jobs
            /\ pc' = "idle_backoff"
    /\ receipt' = None
    /\ poll_exc' = "none"
    /\ UNCHANGED <<config, peer, running, queue, workspace_dirs, history>>

\* the queue's part of receive_message: the message is hidden, not deleted,
\* and this receive gets a receipt handle
Receive(q, m) ==
    [q EXCEPT ![m].st = "inflight", ![m].rc = Min(q[m].rc + 1, MaxReceive)]

PollExceptReraise(e) == [raised |-> TRUE, caught |-> e]

\* poll_sqs, lines 65-68: `except Exception` logs, sleeps 5 s and returns
\* None; nothing is raised to run()
PollExcept(e) == [raised |-> FALSE, caught |-> e]

\* where run() goes after a poll that ended in the except block
AfterPollExcept(e) ==
    IF PollExcept(e).raised THEN "error_backoff" ELSE "idle_backoff"

\* poll_sqs against the real queue, and the `if polled` of run()
PollSQS ==
    /\ pc = "polling" /\ running /\ ~mock_mode
    /\ ClearIteration
    /\ \/ \* receive_message raises
          \E e \in TransportFailures :
          /\ queue' = queue
          /\ job_data' = None /\ receipt' = None
          /\ poll_exc' = PollExcept(e).caught
          /\ pc' = AfterPollExcept(e)
       \/ \* no message
          /\ \A m \in 1..Len(queue) : queue[m].st # "visible"
          /\ queue' = queue
          /\ job_data' = None /\ receipt' = None
          /\ poll_exc' = "none"
          /\ pc' = "idle_backoff"
       \/ \E m \in 1..Len(queue) :
          /\ queue[m].st = "visible"
          /\ queue' = Receive(queue, m)
          /\ IF queue[m].body = Garbled
             THEN \* json.loads raises
                  /\ job_data' = None /\ receipt' = None
                  /\ poll_exc' = PollExcept("JSONDecodeError").caught
                  /\ pc' = AfterPollExcept("JSONDecodeError")
             ELSE /\ job_data' = queue[m].body
                  /\ receipt' = Handle(m, queue'[m].rc)
                  /\ poll_exc' = "none"
                  /\ pc' = "processing"
    /\ UNCHANGED <<config, peer, running, mock_jobs, workspace_dirs, history>>

\* run(), lines 82-85: the print that reads job_data['job_id'], then
\* process_job
Process ==
    /\ pc = "processing"
    /\ IF "job_id" \notin DOMAIN job_data
       THEN /\ exc' = "KeyError"
            /\ pc' = "error_backoff"
            /\ UNCHANGED <<result, backend_calls, git_trace, pr_repo,
                           workspace_dirs, processed>>
       ELSE \* what process_job may do, for what the backend, the git remote,
            \* the hosting API and the clock may do
            \E out \in {ProcessJob(job_data, proc_mock_mode, backend,
                                   github_enabled, github, inj, d, workspace_dirs) :
                            backend \in BackendOutcomes, inj \in GitFailures,
                            d \in Durations} :
                /\ processed' = IF mock_mode THEN Append(processed, job_data)
                                ELSE processed
                /\ backend_calls' = out.backend_calls
                /\ git_trace' = out.trace
                /\ pr_repo' = PrRequest(job_data, out.trace)
                /\ workspace_dirs' = out.dirs
                /\ result' = out.result
                /\ exc' = IF out.raised THEN "process_job" ELSE "none"
                /\ pc' = IF out.raised THEN "error_backoff" ELSE "reporting"
    /\ UNCHANGED <<config, peer, running, mock_jobs, job_data, receipt,
                   callback_success, response, queue, added, reported,
                   poll_exc, delete_arg, cb_failed>>

\* the queue's part of delete_message
DeleteMessage(q, h) == [q EXCEPT ![h.m].st = "deleted"]

ShouldDeleteWhateverCallback(ok, mock, rcpt) == ~mock /\ rcpt # None
ShouldDeleteInMockOnly(ok, mock, rcpt) == ok /\ mock /\ rcpt # None
ShouldDeleteOnFailure(ok, mock, rcpt) == ~ok /\ ~mock /\ rcpt # None

\* whether run() acknowledges: lines 90 and 93
ShouldDelete(ok, mock, rcpt) == ok /\ ~mock /\ rcpt # None

\* run(), lines 88-100: send_callback, then delete_message on success
Report ==
    /\ pc = "reporting"
    /\ \E resp \in Responses, deleted \in BOOLEAN :
       LET ok == SendCallback(resp)
       IN  /\ response' = resp
           /\ callback_success' = ok
           /\ cb_failed' = IF ~ok /\ receipt # None /\ OwnHandle(receipt)
                           THEN cb_failed \cup {receipt} ELSE cb_failed
           /\ IF ShouldDelete(ok, mock_mode, receipt)
              THEN /\ delete_arg' = receipt
                   \* delete_message deletes, or raises and is logged
                   /\ queue' = IF deleted THEN DeleteMessage(queue, receipt)
                               ELSE queue
              ELSE /\ delete_arg' = None
                   /\ queue' = queue
    /\ reported' = IF mock_mode THEN Append(reported, job_data) ELSE reported
    /\ pc' = "polling"
    /\ UNCHANGED <<config, peer, running, mock_jobs, job_data, receipt, result,
                   backend_calls, git_trace, pr_repo, exc, poll_exc,
                   workspace_dirs, added, processed>>

\* run(), line 103: asyncio.sleep(5) after an empty poll
IdleBackoff ==
    /\ pc = "idle_backoff"
    /\ pc' = "polling"
    /\ UNCHANGED <<config, peer, running, mock_jobs, locals, queue, workspace_dirs, history>>

ErrorBackoffStops ==
    /\ pc = "error_backoff"
    /\ running' = FALSE
    /\ pc' = "stopped"
    /\ UNCHANGED <<config, peer, mock_jobs, locals, queue, workspace_dirs, history>>

\* run(), lines 109-111: the loop guard, asyncio.sleep(10)
ErrorBackoff ==
    /\ pc = "error_backoff"
    /\ pc' = "polling"
    /\ UNCHANGED <<config, peer, running, mock_jobs, locals, queue, workspace_dirs, history>>

\* run(), lines 105-108: KeyboardInterrupt raised inside the try block
Interrupt ==
    /\ pc \in {"polling", "processing", "reporting", "idle_backoff", "error_backoff"}
    /\ running' = FALSE
    /\ pc' = "stopped"
    /\ job_data' = None /\ receipt' = None        \* run() has returned
    /\ poll_exc' = "none"
    /\ ClearIteration
    /\ UNCHANGED <<config, peer, mock_jobs, queue, workspace_dirs, history>>

\* the worker process dies and main() is started again (real queue: the
\* in-process list would not survive)
Restart ==
    /\ ~mock_mode
    /\ pc # "init"
    /\ running' = TRUE
    /\ pc' = "polling"
    /\ job_data' = None /\ receipt' = None
    /\ poll_exc' = "none"
    /\ ClearIteration
    /\ UNCHANGED <<config, peer, mock_jobs, queue, workspace_dirs, history>>

(***************************************************************************)
(* A second instance of the worker on the same real queue.  It runs the    *)
(* same poll_sqs and run(); of its iteration the model keeps the receive,  *)
(* the time it holds the job (processing and reporting, of any duration),  *)
(* and the end of the iteration with or without a delete.                  *)
(***************************************************************************)
\* the peer's poll_sqs returns: a receive of a visible message
PeerPoll ==
    /\ ~mock_mode
    /\ peer_job_data = None
    /\ \E m \in 1..Len(queue) :
          /\ queue[m].st = "visible"
          /\ queue' = Receive(queue, m)
          /\ IF queue[m].body = Garbled \/ "job_id" \notin DOMAIN queue[m].body
             THEN \* json.loads raises, or line 82 does: the peer holds no job
                  /\ peer_job_data' = None /\ peer_receipt' = None
             ELSE /\ peer_job_data' = queue[m].body
                  /\ peer_receipt' = Handle(m, queue'[m].rc)
    /\ UNCHANGED <<config, running, pc, mock_jobs, locals, workspace_dirs, history>>

\* the peer's iteration ends: process_job raised or the callback returned
\* False (no delete), or the callback returned True and delete_message was
\* invoked (it deletes, or raises and is logged)
PeerFinish ==
    /\ peer_job_data # None
    /\ \E ok \in BOOLEAN, deleted \in BOOLEAN :
          queue' = IF ShouldDelete(ok, mock_mode, peer_receipt) /\ deleted
                   THEN DeleteMessage(queue, peer_receipt)
                   ELSE queue
    /\ peer_job_data' = None
    /\ peer_receipt' = None
    /\ UNCHANGED <<config, running, pc, mock_jobs, locals, workspace_dirs, history>>

\* the loop of run(), whatever the queue is
Loop ==
    \/ Run
    \/ Process
    \/ Report
    \/ IdleBackoff
    \/ ErrorBackoff
    \/ Interrupt

\* a worker on the in-process list
MockNext ==
    \/ \E j \in MockJobs : add_mock_job(j)
    \/ PollMock
    \/ Loop

\* a worker on the real queue
SQSNext ==
    \/ \E b \in Bodies : SendMessage(b)
    \/ \E m \in 1..Len(queue) : VisibilityTimeout(m)
    \/ PollSQS
    \/ Restart
    \/ Loop

Next == MockNext \/ SQSNext

Spec == Init /\ [][Next]_vars

\* SQS_ENABLED is not "true"
MockInit == Init /\ mock_mode
MockSpec == MockInit /\ [][MockNext]_vars

\* SQS_ENABLED=true
SQSInit == Init /\ ~mock_mode
SQSSpec == SQSInit /\ [][SQSNext]_vars

\* process_job on the Mock Path (no generation backend), for a job the
\* mock list has handed to run(), and the callback for its Result
MockPathInit ==
    /\ mock_mode = TRUE /\ proc_mock_mode = TRUE
    /\ github_enabled \in BOOLEAN /\ github \in BOOLEAN
    /\ github => github_enabled
    /\ running = TRUE
    /\ pc = "processing"
    /\ job_data \in MockPathJobs
    /\ added = <<job_data>>
    /\ mock_jobs = <<>>
    /\ receipt = None
    /\ result = NoResult
    /\ callback_success = FALSE
    /\ queue = <<>>
    /\ response = None
    /\ workspace_dirs = {}
    /\ processed = <<>>
    /\ reported = <<>>
    /\ backend_calls = <<>>
    /\ git_trace = <<>>
    /\ exc = "none"
    /\ poll_exc = "none"
    /\ pr_repo = None
    /\ delete_arg = None
    /\ cb_failed = {}
    /\ peer_job_data = None
    /\ peer_receipt = None

MockPathNext ==
    \/ Process
    \/ Report
    \/ ErrorBackoff

MockPathSpec == MockPathInit /\ [][MockPathNext]_vars

\* process_job on the Generation Path with git integration enabled, for a
\* job the mock list has handed to run(), and the callback for its Result
GitPathInit ==
    /\ mock_mode = TRUE /\ proc_mock_mode = FALSE
    /\ github_enabled = TRUE /\ github \in BOOLEAN
    /\ running = TRUE
    /\ pc = "processing"
    /\ job_data \in GitPathJobs
    /\ added = <<job_data>>
    /\ mock_jobs = <<>>
    /\ receipt = None
    /\ result = NoResult
    /\ callback_success = FALSE
    /\ queue = <<>>
    /\ response = None
    /\ workspace_dirs = {}
    /\ processed = <<>>
    /\ reported = <<>>
    /\ backend_calls = <<>>
    /\ git_trace = <<>>
    /\ exc = "none"
    /\ poll_exc = "none"
    /\ pr_repo = None
    /\ delete_arg = None
    /\ cb_failed = {}
    /\ peer_job_data = None
    /\ peer_receipt = None

GitPathNext ==
    \/ Process
    \/ Report

GitPathSpec == GitPathInit /\ [][GitPathNext]_vars

\* two workers on the real queue
TwoWorkersNext ==
    \/ SQSNext
    \/ PeerPoll
    \/ PeerFinish

TwoWorkersSpec == SQSInit /\ [][TwoWorkersNext]_vars



(***************************************************************************)
(* The worker on the real queue when it is never stopped for good: no      *)
(* KeyboardInterrupt, and a worker that died is started again.  Fairness:  *)
(* the loop goes on (its sleeps end, each visibility timeout runs out), a  *)
(* message that is visible again and again is received, a job that is in   *)
(* hand again and again is processed (the worker does not die every time), *)
(* and a callback that is sent again and again for a message succeeds, its *)
(* delete with it.                                                         *)
(***************************************************************************)
FairNext ==
    \/ \E b \in Bodies : SendMessage(b)
    \/ \E m \in 1..Len(queue) : VisibilityTimeout(m)
    \/ PollSQS
    \/ Restart
    \/ Run
    \/ Process
    \/ Report
    \/ IdleBackoff
    \/ ErrorBackoff

\* PollSQS returns message m
ReceiveOf(m) == PollSQS /\ receipt' # None /\ receipt'.m = m
\* Report: the callback returns True and delete_message deletes message m
AckOf(m) == Report /\ callback_success' /\ m <= Len(queue) /\ queue'[m].st = "deleted"

Fairness ==
    /\ WF_vars(Run)
    /\ WF_vars(IdleBackoff)
    /\ WF_vars(ErrorBackoff)
    /\ SF_vars(Process)
    /\ \A m \in 1..MaxMsgs :
          /\ WF_vars(m <= Len(queue) /\ VisibilityTimeout(m))
          /\ SF_vars(ReceiveOf(m))
          /\ SF_vars(AckOf(m))

FairSpec == SQSInit /\ [][FairNext]_vars /\ Fairness

(***************************************************************************)
(* Properties.                                                             *)
(***************************************************************************)

\* the step of Report: send_callback has been called and has returned
ReportStep == pc = "reporting" /\ response' # None

\* C1: real-queue mode: whenever delete_message has been invoked, it was with
\* the receipt handle of the delivery in hand, send_callback had returned
\* True for the Result of that delivery, and the handle is not one of a
\* delivery whose send_callback returned False; a message is deleted in such
\* a step only.
C1_DeleteOnlyAfterCallbackSuccess ==
    /\ delete_arg # None =>
          /\ callback_success /\ response # None
          /\ delete_arg = receipt
          /\ delete_arg \notin cb_failed
    /\ \A h \in cb_failed : queue[h.m].st = "deleted" => queue[h.m].rc > h.n

\* C1 witness: the first delivery of a message ended in a callback that
\* returned False and in no delete; the message was delivered again, that
\* callback returned True, and delete_message was invoked with the new handle.
C1_Witness ==
    /\ delete_arg # None /\ delete_arg = receipt /\ callback_success
    /\ \E f \in cb_failed : f.m = delete_arg.m /\ f.n < delete_arg.n

\* C2: in the step in which send_callback returns, with a receipt handle
\* present in real-queue mode: True means delete_message is attempted with
\* that handle, whatever the Result's status; False means no delete_message
\* at all; either way the loop is back at polling.
C2_CallbackBooleanDecidesDelete ==
    [][ReportStep =>
          /\ pc' = "polling"
          /\ (callback_success' /\ ~mock_mode /\ receipt # None)
                => delete_arg' = receipt
          /\ ~callback_success' => (delete_arg' = None /\ queue' = queue)
       ]_vars

\* C2 witness: a Result that reports a failure (git_error or the backend
\* error) was posted, the callback returned True, and delete_message was
\* attempted with the handle of that delivery.
C2_Witness ==
    /\ pc = "polling" /\ callback_success /\ ~mock_mode
    /\ result.status \in {"git_error", ClaudeErrorStatus}
    /\ delete_arg = receipt /\ receipt # None


\* message m has been sent and received at least once
Received(m) == m <= Len(queue) /\ queue[m].rc > 0
Deleted(m) == m <= Len(queue) /\ queue[m].st = "deleted"

\* C3, as stated: every message that was received is eventually deleted.
C3_EveryReceivedMessageEventuallyDeleted ==
    \A m \in 1..MaxMsgs : [](Received(m) => <>Deleted(m))

\* a body that never gets as far as a callback: it does not decode, or it has
\* no job_id (line 82 raises), or process_job raises on it (a null task_text
\* when there is no generation backend)
Poison(b) ==
    \/ b \in {Garbled, JobNoId}
    \/ proc_mock_mode /\ b = JobNullText

\* C3, amended: a message leaves the queue only in a step in which the
\* callback for it returned True; until then it is received again after each
\* visibility timeout; every received message whose body is a job that
\* follows the schema (job_id and task_text are strings) is eventually
\* deleted; a message whose body never gets as far as a callback is never
\* deleted.
C3_SchemaJobEventuallyDeleted ==
    /\ [][\A m \in 1..Len(queue) :
            (queue[m].st # "deleted" /\ queue'[m].st = "deleted")
               => (ReportStep /\ callback_success' /\ receipt.m = m)]_vars
    /\ \A m \in 1..MaxMsgs :
          [](Received(m) /\ queue[m].body \in SchemaJobs => <>Deleted(m))
    /\ [](\A m \in 1..Len(queue) : Poison(queue[m].body) => ~Deleted(m))

\* C3 witness: a schema job was received, not acknowledged, received again
\* after the visibility timeout, and then deleted.
C3_Witness ==
    \E m \in 1..Len(queue) :
        /\ queue[m].body \in SchemaJobs
        /\ queue[m].rc >= 2
        /\ queue[m].st = "deleted"

\* the job the loop has polled and not yet handed to process_job
InHand == IF pc = "processing" THEN <<job_data>> ELSE <<>>

\* process_job raises on job j, so that no callback is sent for it (mock
\* jobs all have a job_id: add_mock_job reads it)
NotReported(j) == proc_mock_mode /\ MockProcessJob(j).raised
Reportable(j) == ~NotReported(j)

\* the job between process_job and send_callback
InReport == IF pc = "reporting" THEN <<job_data>> ELSE <<>>

\* C4: mock-queue mode, while the loop runs: the jobs handed to process_job,
\* then the one in hand, then the ones still in the list, are the jobs added,
\* in the order added (each job is processed once, in FIFO order, and at most
\* one job is between poll and process_job); the callbacks sent, then the one
\* about to be sent, are those of the processed jobs on which process_job
\* returned, in order; a job is polled only at the top of the loop, when every
\* job polled before it has been processed and reported; and the loop finds
\* the list empty only when every added job has been processed.
C4_MockJobsProcessedOnceInOrder ==
    /\ [](mock_mode /\ pc # "stopped" =>
            /\ added = processed \o InHand \o mock_jobs
            /\ SelectSeq(processed, Reportable) = reported \o InReport)
    /\ [][(mock_mode /\ pc' = "processing" /\ pc # "processing") =>
            /\ pc = "polling"
            /\ added = processed \o mock_jobs
            /\ SelectSeq(processed, Reportable) = reported
            /\ job_data' = Head(mock_jobs)
            /\ added' = processed' \o <<job_data'>> \o mock_jobs']_vars
    /\ [][(mock_mode /\ pc = "polling" /\ pc' = "idle_backoff") =>
            processed = added]_vars

\* C4 witness: three different jobs were added, and all three have been
\* processed and reported in the order added; the loop then found the list
\* empty.
C4_Witness ==
    /\ mock_mode /\ pc = "idle_backoff"
    /\ added = <<JobHelp, JobOther, JobStdin>>
    /\ processed = added /\ reported = added
    /\ mock_jobs = <<>>

\* C5, as stated: no exception of process_job reaches the loop guard: the
\* loop always goes from processing to reporting.
C5_ProcessJobNeverRaises == exc # "process_job"

\* the last git step attempted for the polled job
LastStep == git_trace[Len(git_trace)]

\* C6: once process_with_git has returned, the workspace directory of the
\* invocation does not exist (no workspace directory does); if the last step
\* attempted failed, whichever step it is, the Result has status git_error
\* and notes that carry the cause, and nothing was raised; if every step went
\* through, the Result has status pr_opened.
C6_WorkspaceRemovedGitError ==
    /\ workspace_dirs = {}
    /\ git_trace # <<>> =>
          /\ Workspace(job_data) \notin workspace_dirs
          /\ exc = "none"
          /\ \A i \in 1..(Len(git_trace) - 1) : git_trace[i].ok
          /\ ~LastStep.ok =>
                /\ result.status = "git_error"
                /\ result.notes = [msg |-> "Git operation failed",
                                   cause |-> LastStep.step]
          /\ LastStep.ok =>
                /\ result.status = "pr_opened"
                /\ Len(git_trace) = Len(PlannedSteps(github))

\* C6 witness: every step up to the push went through, opening the pull
\* request failed, and process_with_git has returned git_error with the
\* workspace gone.
C6_Witness ==
    /\ pc = "reporting"
    /\ Len(git_trace) = Len(GitSteps)
    /\ LastStep = [step |-> "open_pr", ok |-> FALSE]
    /\ result.status = "git_error"
    /\ Workspace(job_data) \notin workspace_dirs

\* a status of the 2xx range
Is2xx(code) == code \in 200..299

\* C7: once send_callback has been called, it has returned (nothing reached
\* the loop guard, the loop is back at polling), with False if the POST
\* raised a transport failure, with False if the response status is not a
\* success status, and with True only if the endpoint answered with a success
\* status.
C7_SendCallbackNeverRaises ==
    response # None =>
        /\ pc = "polling" /\ exc = "none"
        /\ callback_success \in BOOLEAN
        /\ response.kind = "exception" => ~callback_success
        /\ (response.kind = "status" /\ ~Is2xx(response.code)) => ~callback_success
        /\ callback_success => (response.kind = "status" /\ Is2xx(response.code))

\* C7 witness: the POST timed out and send_callback returned False.
C7_Witness ==
    /\ response = [kind |-> "exception", exc |-> "Timeout"]
    /\ ~callback_success
    /\ pc = "polling" /\ exc = "none"

\* C8, as stated: send_callback returns True for every response status of
\* the 2xx range.
C8_Every2xxIsSuccess ==
    (response # None /\ response.kind = "status" /\ Is2xx(response.code))
        => callback_success

\* C9: every Result process_job has returned carries job_id, equal to the
\* job's job_id, and status.
C9_ResultCarriesJobIdAndStatus ==
    result # NoResult =>
        /\ {"job_id", "status"} \subseteq DOMAIN result
        /\ result.job_id = job_data.job_id
        /\ result.status \in {"auto_merged", "pr_opened", "code_generated",
                              "git_error", ClaudeErrorStatus}

\* C9 witness: generation succeeded, the git workflow failed, and the Result
\* handed to the callback has status git_error and the job's job_id.
C9_Witness ==
    /\ pc = "reporting"
    /\ backend_calls = <<"answer">>
    /\ result.status = "git_error"
    /\ "job_id" \in DOMAIN result /\ result.job_id = job_data.job_id

\* the backend failed a request made for the polled job
BackendFailed == \E i \in 1..Len(backend_calls) : backend_calls[i] # "answer"

C11_MergedResultForcesTestsPassed ==
    (git_trace # <<>> /\ result # NoResult) =>
        /\ result.job_id = job_data.job_id
        /\ result.tok_in = BackendAnswer.input_tokens
        /\ result.tok_out = BackendAnswer.output_tokens
        /\ "lint_passed" \in DOMAIN result /\ result.lint_passed
        /\ "tests_passed" \in DOMAIN result /\ result.tests_passed

\* something failed in the iteration that the step ends: the Result reports
\* a git or backend failure, the callback returned False, or delete_message
\* was invoked and did not delete
FailedIteration ==
    \/ result.status \in {"git_error", ClaudeErrorStatus}
    \/ ~callback_success'
    \/ delete_arg' # None /\ queue'[delete_arg'.m].st # "deleted"

\* C12, as stated: every failure leads to a backoff before the loop polls
\* again: the loop goes from reporting straight to polling only when nothing
\* failed in the iteration.
C12_EveryFailureLeadsToBackoff ==
    [][(pc = "reporting" /\ pc' = "polling" /\ response' # None)
          => ~FailedIteration]_vars

\* C12, amended: no failure ends the loop.  The loop is running in every
\* state between the start of run() and the stop signal; stopped is entered
\* by the stop signal only; an exception that reaches the loop guard puts the
\* loop in the error backoff; a failed poll puts it in the idle backoff; both
\* backoffs lead back to polling; a Result that reports a failure, a callback
\* that returned False and a delete that failed lead from reporting straight
\* to polling, with no backoff.
C12_NoFailureEndsTheLoop ==
    /\ [](pc \notin {"init", "stopped"} => running)
    /\ [](exc # "none" => pc \in {"error_backoff", "polling"})
    /\ [][(pc' = "stopped" /\ pc # "stopped") => Interrupt]_vars
    /\ [][(pc = "polling" /\ pc' # pc /\ job_data' = None)
             => pc' \in {"idle_backoff", "polling", "stopped"}]_vars
    /\ [][(pc = "processing" /\ pc' # pc)
             => pc' \in {"reporting", "error_backoff", "polling", "stopped"}]_vars
    /\ [][(pc \in {"idle_backoff", "error_backoff"} /\ pc' # pc)
             => pc' \in {"polling", "stopped"}]_vars
    /\ [][(pc = "reporting" /\ pc' # pc) => pc' \in {"polling", "stopped"}]_vars
    /\ [][(pc = "reporting" /\ response' # None /\ FailedIteration)
             => (pc' = "polling" /\ running')]_vars

\* C12 witness: an exception of process_job reached the loop guard, the
\* error backoff is over, and the loop is running and polling again.
C12_Witness ==
    /\ pc = "polling" /\ running
    /\ exc = "process_job"

\* C13, as stated: the stop signal is honored at a loop-iteration boundary
\* only: the loop reaches stopped from the top of an iteration or from a
\* backoff, never while a job is polled and not yet reported.
C13_StopOnlyAtIterationBoundary ==
    [][(pc' = "stopped" /\ pc # "stopped")
          => pc \in {"polling", "idle_backoff", "error_backoff"}]_vars

\* this worker holds a job: polled and not yet reported
Holds == pc \in {"processing", "reporting"} /\ job_data # None
\* the second worker holds a job
PeerHolds == peer_job_data # None

\* C14, as stated: no job id is held by both workers at the same time.
C14_NoJobHeldByBothWorkers ==
    (Holds /\ PeerHolds /\ "job_id" \in DOMAIN job_data)
        => job_data.job_id # peer_job_data.job_id

\* C15: real-queue mode.  While the last poll is one that ended in the
\* except block of poll_sqs, run() has no job and no receipt, nothing has
\* reached the loop guard, and the loop is in the idle backoff or back at
\* polling; the poll deleted no message: a transport failure leaves the queue
\* as it is, a decode failure leaves the received message in flight; the idle
\* backoff leads to polling; a body that does not decode is never deleted.
C15_PollFailureIsAnEmptyPoll ==
    /\ [](poll_exc # "none" =>
            /\ ~mock_mode
            /\ pc \in {"idle_backoff", "polling"}
            /\ job_data = None /\ receipt = None
            /\ exc = "none")
    /\ [][(pc = "polling" /\ pc' # pc /\ poll_exc' # "none") =>
            /\ pc' = "idle_backoff"
            /\ \A m \in 1..Len(queue) : queue'[m].st = "deleted" => queue[m].st = "deleted"
            /\ poll_exc' \in TransportFailures => queue' = queue
            /\ poll_exc' = "JSONDecodeError" =>
                  \E m \in 1..Len(queue) :
                      /\ queue[m].body = Garbled /\ queue[m].st = "visible"
                      /\ queue' = Receive(queue, m)
                      /\ queue'[m].st = "inflight"]_vars
    /\ [][(pc = "idle_backoff" /\ pc' # pc) => pc' \in {"polling", "stopped"}]_vars
    /\ [](\A m \in 1..Len(queue) : queue[m].body = Garbled => queue[m].st # "deleted")

\* C15 witness: a body that does not decode was received, poll_sqs returned
\* empty, and the loop went through the idle backoff back to polling with
\* the message still in flight.
C15_Witness ==
    /\ pc = "polling" /\ running
    /\ poll_exc = "JSONDecodeError"
    /\ \E m \in 1..Len(queue) : queue[m].body = Garbled /\ queue[m].st = "inflight"

\* the rule of the Mock Path that a task text falls under, text by text
KeywordClass(t) ==
    CASE t \in {TextHelp, TextBoth, TextBothHelp1, TextUnhelpful} -> "help"
      [] t \in {TextStdin, TextStdinUpper}                        -> "stdin"
      [] t \in {TextOther, TextHel, TextEmpty}                    -> "other"

\* C16: Mock Path, job_id and task_text strings (or task_text missing, which
\* counts as the empty text): process_job returns; a text with "help" in any
\* case, with "stdin" in it or not, gives auto_merged and files_touched =
\* {cli.py, README.md}; a text with "stdin" in any case and no "help" gives
\* auto_merged with a test file touched; any other text gives pr_opened with
\* loc_delta >= 150; tests_passed is true in all three.
C16_MockPathKeywordPriority ==
    (proc_mock_mode /\ pc # "processing" /\ job_data # None
       /\ IsStr(job_data.job_id) /\ IsStr(Get(job_data, "task_text", PyStr(TextEmpty)))) =>
        LET class == KeywordClass(Get(job_data, "task_text", PyStr(TextEmpty)).v)
        IN  /\ exc = "none" /\ result # NoResult
            /\ result.tests_passed = TRUE
            /\ class = "help" =>
                  /\ result.status = "auto_merged"
                  /\ result.files_touched = {"cli.py", "README.md"}
            /\ class = "stdin" =>
                  /\ result.status = "auto_merged"
                  /\ "tests/test_cli.py" \in result.files_touched
            /\ class = "other" =>
                  /\ result.status = "pr_opened"
                  /\ result.loc_delta >= 150

\* C16 witness: a text with STDIN first and help after it was classified by
\* the help rule.
C16_Witness ==
    /\ proc_mock_mode /\ pc = "reporting"
    /\ Get(job_data, "task_text", None) = PyStr(TextBoth)
    /\ result.status = "auto_merged"
    /\ result.files_touched = {"cli.py", "README.md"}

\* C17: every Result process_job returned on the Mock Path has status
\* auto_merged or pr_opened, and the job_id of the job.
C17_MockPathStatusAndJobId ==
    (proc_mock_mode /\ result # NoResult) =>
        /\ result.status \in {"auto_merged", "pr_opened"}
        /\ result.job_id = job_data.job_id

\* C17 witness: the Mock Path returned pr_opened for job t2.
C17_Witness ==
    /\ proc_mock_mode /\ pc = "reporting"
    /\ result.status = "pr_opened"
    /\ job_data.job_id = PyStr(T2) /\ result.job_id = PyStr(T2)

\* the owner and the name a repository URL stands for, URL by URL
ExpectedRepo(u) ==
    CASE u \in {UrlSsh, UrlHttps} -> [owner |-> Acme, repo_name |-> Widgets]
      [] u = UrlPages             -> [owner |-> Acme, repo_name |-> AcmeGithubIo]
      [] u = UrlGitops            -> [owner |-> Acme, repo_name |-> MyGitops]
      [] OTHER                    -> None

\* C18, as stated: when the open-PR step is reached, a URL of one of the two
\* recognised forms with exactly one '/' in its remainder is parsed to its
\* owner and name, and any other URL is a parse error that ends in a
\* git_error Result.
C18_ParseRepoUrlOwnerAndName ==
    (git_trace # <<>> /\ LastStep.step = "open_pr") =>
        /\ pr_repo = ExpectedRepo(job_data.repo.v)
        /\ ExpectedRepo(job_data.repo.v) = None =>
              (~LastStep.ok /\ result.status = "git_error")

\* C19, as stated: every non-empty poll result is handed to process_job and
\* its Result to send_callback: the loop leaves processing for reporting,
\* with the Result of the job in hand, and never for the loop guard.
C19_PollResultProcessedThenReported ==
    [][(pc = "processing" /\ pc' \in {"reporting", "error_backoff"}) =>
          /\ pc' = "reporting"
          /\ result' # NoResult
          /\ result'.job_id = job_data.job_id]_vars

\* C20: the git steps attempted are the first steps of clone, config, branch,
\* write, commit, push, open_pr, in that order; only the last one attempted
\* can have failed (no step runs after a failed one); open_pr is attempted
\* only with a hosting client; the Result is pr_opened only when every step
\* up to push, and open_pr with a hosting client, went through, and
\* git_error otherwise; the cleanup has run in every case.
C20_GitStepsInStrictOrder ==
    git_trace # <<>> =>
        /\ Len(git_trace) <= Len(GitSteps)
        /\ \A i \in 1..Len(git_trace) : git_trace[i].step = GitSteps[i]
        /\ \A i \in 1..(Len(git_trace) - 1) : git_trace[i].ok
        /\ (\E i \in 1..Len(git_trace) : git_trace[i].step = "open_pr") => github
        /\ result.status \in {"pr_opened", "git_error"}
        /\ result.status = "pr_opened" <=>
              /\ \A i \in 1..Len(git_trace) : git_trace[i].ok
              /\ Len(git_trace) = IF github THEN Len(GitSteps) ELSE Len(GitSteps) - 1
        /\ workspace_dirs = {}

\* C20 witness: the commit failed: five steps were attempted, no push and no
\* pull request, and the Result is git_error.
C20_Witness ==
    /\ pc = "reporting"
    /\ Len(git_trace) = 5
    /\ git_trace[5] = [step |-> "commit", ok |-> FALSE]
    /\ result.status = "git_error"
    /\ pr_repo = None

\* the number of list entries poll_sqs has popped so far
Polled == Len(added) - Len(mock_jobs)

\* s is the beginning of t
IsPrefix(s, t) == Len(s) <= Len(t) /\ s = SubSeq(t, 1, Len(s))

\* C21: mock-queue mode: the list holds the entries added and not yet polled,
\* in order; the list changes only by an add_mock_job, which appends a new
\* entry, or by a poll, which removes the first one: no step of the loop puts
\* a job back, so the number of entries polled never goes down; the jobs
\* handed to process_job, then the one in hand, are the first entries polled,
\* each once, and the callbacks sent are those of the first processed jobs on
\* which process_job returned, each once; after a failed callback, and after
\* an iteration that ended in an exception, the loop polls again with the
\* list as it was and the job no longer in hand.
C21_MockJobPolledAtMostOnce ==
    /\ [](mock_mode =>
            /\ Polled >= 0
            /\ mock_jobs = SubSeq(added, Polled + 1, Len(added))
            /\ IsPrefix(processed \o InHand, SubSeq(added, 1, Polled))
            /\ IsPrefix(reported \o InReport, SelectSeq(processed, Reportable)))
    /\ [][mock_mode =>
            /\ Polled' >= Polled
            /\ IsPrefix(added, added')
            /\ IsPrefix(processed, processed')
            /\ IsPrefix(reported, reported')]_vars
    /\ [][(mock_mode /\ mock_jobs' # mock_jobs) =>
            \/ /\ Len(added') = Len(added) + 1
               /\ mock_jobs' = Append(mock_jobs, added'[Len(added')])
            \/ /\ pc = "polling" /\ pc' = "processing"
               /\ added' = added
               /\ job_data' = Head(mock_jobs)
               /\ mock_jobs' = Tail(mock_jobs)]_vars
    /\ [][(mock_mode /\ pc = "reporting" /\ pc' # "reporting") =>
            /\ mock_jobs' = mock_jobs
            /\ pc' \in {"polling", "stopped"}]_vars
    /\ [][(mock_mode /\ pc = "error_backoff" /\ pc' # "error_backoff") =>
            /\ mock_jobs' = mock_jobs
            /\ processed' = processed /\ reported' = reported
            /\ pc' \in {"polling", "stopped"}]_vars

\* C21 witness: two jobs were added and both polled; process_job raised on
\* the first, so no callback was sent for it, and the callback of the second
\* has just failed: the loop is back at the poll with an empty list, and
\* neither job is left to be processed or reported again.
C21_Witness ==
    /\ mock_mode /\ pc = "polling"
    /\ Len(added) = 2 /\ mock_jobs = <<>>
    /\ processed = added
    /\ reported = <<added[2]>>
    /\ NotReported(added[1])
    /\ response # None /\ ~callback_success

====
